---- MODULE Spec2Model ----
(***************************************************************************)
(* Model of the SiS Lua debug adapter (src/src/debugger/luaDebugAdapter.ts)*)
(*                                                                         *)
(*   SpecReader : DebuggeeConnection, the '#<len>\n<body>' frame reader,   *)
(*                fed a byte stream in arbitrary chunks, with the socket's *)
(*                'error' and 'close' events.                              *)
(*   Spec       : SisLuaDebugAdapterSession, the session state machine     *)
(*                (start, bind, launch, accept, forward, stop, timers).    *)
(*                                                                         *)
(* Bytes are modelled as short strings: "#", "NL" (0x0a), the digits, "-", *)
(* "a" (any other ASCII byte), and "C3" "A9" (the two bytes of U+00E9).    *)
(* Characters of a decoded text are "e'" for U+00E9, "FFFD" for the        *)
(* replacement character, and the byte's own name for ASCII.               *)
(***************************************************************************)
EXTENDS Integers, Sequences, FiniteSets, TLC

\* ------------------------------------------------------------------ bounds
MaxFrames == 2
MaxJunk == 5

\* ------------------------------------------------- reader: pure functions
NL == "NL"

Digits == {"0", "1", "2", "3", "4", "5", "6", "7", "8", "9"}

DigitVal(d) ==
  CASE d = "0" -> 0 [] d = "1" -> 1 [] d = "2" -> 2 [] d = "3" -> 3
    [] d = "4" -> 4 [] d = "5" -> 5 [] d = "6" -> 6 [] d = "7" -> 7
    [] d = "8" -> 8 [] d = "9" -> 9

DigitChar(n) ==
  CASE n = 0 -> "0" [] n = 1 -> "1" [] n = 2 -> "2" [] n = 3 -> "3"
    [] n = 4 -> "4" [] n = 5 -> "5" [] n = 6 -> "6" [] n = 7 -> "7"
    [] n = 8 -> "8" [] n = 9 -> "9"

\* String(n) for a non-negative integer: its decimal digits.
RECURSIVE Decimal(_)
Decimal(n) == IF n < 10 THEN <<DigitChar(n)>>
              ELSE Append(Decimal(n \div 10), DigitChar(n % 10))

\* Buffer.from(text, 'utf8'): one byte per ASCII character, two for U+00E9,
\* three for the replacement character.
RECURSIVE Utf8Encode(_)
Utf8Encode(text) ==
  IF text = <<>> THEN <<>>
  ELSE (CASE Head(text) = "e'" -> <<"C3", "A9">>
          [] Head(text) = "FFFD" -> <<"EF", "BF", "BD">>
          [] OTHER -> <<Head(text)>>) \o Utf8Encode(Tail(text))

\* bodyBytes.toString('utf8'): a complete C3 A9 pair is U+00E9, a complete
\* EF BF BD triple is U+FFFD, a lead or continuation byte on its own is
\* replaced by U+FFFD, every ASCII byte is itself.
RECURSIVE Utf8Decode(_)
Utf8Decode(bytes) ==
  IF bytes = <<>> THEN <<>>
  ELSE IF Len(bytes) >= 2 /\ bytes[1] = "C3" /\ bytes[2] = "A9"
       THEN <<"e'">> \o Utf8Decode(SubSeq(bytes, 3, Len(bytes)))
  ELSE IF Len(bytes) >= 3 /\ bytes[1] = "EF" /\ bytes[2] = "BF" /\ bytes[3] = "BD"
       THEN <<"FFFD">> \o Utf8Decode(SubSeq(bytes, 4, Len(bytes)))
  ELSE IF bytes[1] \in {"C3", "A9", "EF", "BF", "BD"}
       THEN <<"FFFD">> \o Utf8Decode(Tail(bytes))
  ELSE <<bytes[1]>> \o Utf8Decode(Tail(bytes))

\* The bytes sendRawJsonText hands to socket.write: header, then body.
sendRawJsonText_charLength(jsonText) ==
  <<"#">> \o Decimal(Len(jsonText)) \o <<NL>> \o Utf8Encode(jsonText)

sendRawJsonText(jsonText) ==
  LET bodyBytes == Utf8Encode(jsonText)
  IN <<"#">> \o Decimal(Len(bodyBytes)) \o <<NL>> \o bodyBytes

\* buffer.indexOf(0x0a), 1-based; 0 when there is no newline.
RECURSIVE indexOfNL(_, _)
indexOfNL(buf, from) ==
  IF from > Len(buf) THEN 0
  ELSE IF buf[from] = NL THEN from
  ELSE indexOfNL(buf, from + 1)

\* Number.parseInt(s, 10): leading white space is skipped, one optional
\* sign, then the longest prefix of digits; NaN when that prefix is empty.
\* Trailing garbage is ignored.
RECURSIVE SkipSpace(_)
SkipSpace(s) == IF s # <<>> /\ Head(s) = " " THEN SkipSpace(Tail(s)) ELSE s

RECURSIVE DigitPrefixValue(_, _)
DigitPrefixValue(s, acc) ==
  IF s # <<>> /\ Head(s) \in Digits
  THEN DigitPrefixValue(Tail(s), acc * 10 + DigitVal(Head(s)))
  ELSE acc

parseInt(s) ==
  LET t == SkipSpace(s)
      neg == t # <<>> /\ Head(t) = "-"
      u == IF t # <<>> /\ Head(t) \in {"-", "+"} THEN Tail(t) ELSE t
  IN IF u = <<>> \/ Head(u) \notin Digits
     THEN [nan |-> TRUE, val |-> 0]
     ELSE [nan |-> FALSE,
           val |-> IF neg THEN 0 - DigitPrefixValue(u, 0) ELSE DigitPrefixValue(u, 0)]

\* Buffer.subarray clamps its end to the buffer's length (1-based, inclusive).
subarray(buf, from, to) == SubSeq(buf, from, IF to > Len(buf) THEN Len(buf) ELSE to)

\* header.startsWith('#')
startsWithHash(header) == header # <<>> /\ Head(header) = "#"

\* !Number.isFinite(bodySize) || bodySize < 0
invalidBodySize(p) == p.nan \/ p.val < 0

\* this.buffer.length < bodyEnd  (the frame is not complete yet)
frameIncomplete_never(buf, bodyEnd) == FALSE

frameIncomplete(buf, bodyEnd) == Len(buf) < bodyEnd

\* What the reader keeps in its buffer when it reports a framing error:
\* everything, the offending header line included.
bufferAfterFramingError_resync(buf, nl) == SubSeq(buf, nl + 1, Len(buf))

bufferAfterFramingError(buf, nl) == buf

\* The while(true) loop of onData over the accumulated buffer.  st is
\* [buffer, messages, closed]: the accumulator, the bodies handed to
\* onJsonMessage so far and the number of onSocketClosed calls so far.
RECURSIVE onDataLoop(_)
onDataLoop(st) ==
  LET buf == st.buffer
      nl == indexOfNL(buf, 1)
  IN IF nl = 0 THEN st
     ELSE LET header == SubSeq(buf, 1, nl - 1)
          IN IF ~startsWithHash(header)
             THEN [st EXCEPT !.buffer = bufferAfterFramingError(buf, nl),
                             !.closed = @ + 1]
             ELSE LET bodySize == parseInt(Tail(header))
                  IN IF invalidBodySize(bodySize)
                     THEN [st EXCEPT !.buffer = bufferAfterFramingError(buf, nl),
                                     !.closed = @ + 1]
                     ELSE LET bodyEnd == nl + bodySize.val
                          IN IF frameIncomplete(buf, bodyEnd) THEN st
                             ELSE onDataLoop(
                                    [buffer |-> SubSeq(buf, bodyEnd + 1, Len(buf)),
                                     messages |-> Append(st.messages,
                                        Utf8Decode(subarray(buf, nl + 1, bodyEnd))),
                                     closed |-> st.closed])

\* onData(chunk): append, then run the loop.
onData(st, chunk) == onDataLoop([st EXCEPT !.buffer = @ \o chunk])


\* ------------------------------------------------------ reader: the state
VARIABLES
  frames,        \* the texts written by the peer (well-formed run), or <<>>
  stream,        \* the bytes the peer sends on this connection
  pos,           \* how many of them the socket has delivered so far
  lastCut,       \* pos before the most recent 'data' event
  rd,            \* DebuggeeConnection: buffer, messages delivered, closed calls
  socketState,   \* "open", "errored" ('error' emitted), "closed" ('close' emitted)
  fatalAt        \* messages delivered when the first framing error was met, or -1

readerVars == <<frames, stream, pos, lastCut, rd, socketState, fatalAt>>

\* ------------------------------------- configuration, command line: state
VARIABLES
  cfgListenPort, \* args.listenPort as String() renders it, or Absent
  listenPort,    \* this.listenPort, NotRead before readBasicConfiguration
  commandLine,   \* the argument of splitCommandLine
  args           \* its result, NotSplit before the call

pureVars == <<cfgListenPort, listenPort, commandLine, args>>

\* cfg.listenPort undefined or null
Absent == <<"undefined">>

NotRead == -1

NotSplit == << <<"pending">> >>

IdlePureVars ==
  /\ cfgListenPort = Absent /\ listenPort = NotRead
  /\ commandLine = <<>> /\ args = NotSplit

\* ------------------------------------------------ SisLuaSyntaxServer: state
MaxRequests == 2
MaxChildren == 2

VARIABLES
  child,        \* this.child: the spawned process, 0 for undefined
  rl,           \* the child whose stdout this.rl reads, 0 when closed or unset
  spawned,      \* processes spawned so far
  childEvents,  \* 'exit' / 'error' events each process may still emit
  nextId,       \* this.nextId
  pending,      \* this.pending: request id -> the promise it settles, 0 for no entry
  timeouts,     \* request ids whose setTimeout is armed
  calls,        \* sendRequest calls so far; call p returned promise p
  idOf,         \* the id sendRequest gave promise p, 0 for none
  settledBy,    \* per promise, the resolve/reject calls made on it, in order
  lastResponseId \* the id named by the response line handled in the last step,
                \* 0 when the last step handled none

syntaxVars == <<child, rl, spawned, childEvents, nextId, pending, timeouts, calls,
                idOf, settledBy, lastResponseId>>

PromiseIds == 1..MaxRequests
RequestIds == 1..MaxRequests
ChildIds == 1..MaxChildren

InitSyntaxVars ==
  /\ child = 0 /\ rl = 0 /\ spawned = 0
  /\ childEvents = [c \in ChildIds |-> {}]
  /\ nextId = 1
  /\ pending = [i \in RequestIds |-> 0]
  /\ timeouts = {}
  /\ calls = 0
  /\ idOf = [p \in PromiseIds |-> 0]
  /\ settledBy = [p \in PromiseIds |-> <<>>]
  /\ lastResponseId = 0

auxVars == <<pureVars, syntaxVars>>

IdleAuxVars == IdlePureVars /\ InitSyntaxVars

\* Texts the peer may send: empty, ASCII, a two-byte character, a body that
\* looks like a header, and a ten-byte body (two length digits) holding a
\* newline, a '#' and a two-byte character.
TestTexts ==
  { <<>>, <<"a">>, <<"e'">>, <<"#", "1", NL>>,
    <<"a", NL, "#", "0", NL, "e'", "a", "a", "1">> }

\* Bytes an arbitrary (possibly malformed) peer may send.
JunkBytes == {"#", "1", "-", "a", NL}

SeqsUpTo(S, n) == UNION {[1..k -> S] : k \in 0..n}

RECURSIVE Flatten(_)
Flatten(ss) == IF ss = <<>> THEN <<>> ELSE Head(ss) \o Flatten(Tail(ss))

WireBytes(texts) == Flatten([i \in 1..Len(texts) |-> sendRawJsonText(texts[i])])

\* Offset of the last byte of frame i in the stream of these texts.
FrameEnd(texts, i) == Len(WireBytes(SubSeq(texts, 1, i)))

freshReader == [buffer |-> <<>>, messages |-> <<>>, closed |-> 0]

\* No connection is being read.
IdleReaderVars ==
  /\ frames = <<>> /\ stream = <<>> /\ pos = 0 /\ lastCut = 0
  /\ rd = freshReader /\ socketState = "open" /\ fatalAt = -1

InitReaderVars ==
  /\ \/ /\ frames \in SeqsUpTo(TestTexts, MaxFrames)
        /\ stream = WireBytes(frames)
     \/ /\ frames = <<>>
        /\ stream \in SeqsUpTo(JunkBytes, MaxJunk)
  /\ pos = 0
  /\ lastCut = 0
  /\ rd = freshReader
  /\ socketState = "open"
  /\ fatalAt = -1

\* ----------------------------------------------------- session: the state
MaxStarts == 2
MaxSockets == 2
MaxSteps == 8

VARIABLES
  \* fields of SisLuaDebugAdapterSession (0 / "none" stand for undefined)
  debuggee,                  \* socket of the held DebuggeeConnection
  listener,                  \* the net.Server held in this.listener
  pendingStartResponse,      \* launch/attach request whose response is held
  pendingSuccess,            \* the success field of that response object
  sessionToken,
  stopping,
  activeKind,
  launchedChild,             \* pid of the spawned child
  launchedExecutableFullPath,\* start whose executable was resolved
  launchedTerminalKind,
  launchedProcessId,
  launchedShellProcessId,
  clientSupportsRunInTerminalRequest,
  \* the runtime around the session
  platform,                  \* process.platform: "win32" or "posix"
  initialized,               \* the IDE has sent initialize
  server,                    \* net.Server of each start
  cont,                      \* startDebuggingSession suspended at 'await openListener'
  sock,                      \* each debuggee-side socket
  dead,                      \* open sockets whose reader buffer starts with a bad header
  batch,                     \* connections still to be emitted in this accept batch
  graceTimers,               \* stop tokens of pending setTimeout(..., 250)
  immediates,                \* number of pending setImmediate cleanups
  fresh,                     \* starts received while an immediate was pending
  ritPending,                \* per start: kind of the terminal whose runInTerminal
                             \* reply is outstanding, or "none"
  startCount,                \* launch/attach requests received so far
  \* observation of the adapter's outputs
  lastAction, lastArg,       \* the handler that ran in the last step, its argument
  stepLog,                   \* the effects of the last step, in program order
  sent,                      \* success flags of the responses sent for each start
  firstWrite,                \* the first frame written to each live socket
  terminatedCount,           \* terminated events since the last launch/attach
  released,                  \* shutdown() called since the last launch/attach
  connected,                 \* a debuggee was accepted since the last launch/attach
  steps,                     \* handlers run so far
  initializedFor,            \* starts whose response was followed by initialized
  arrived,                   \* requests dispatched to the held connection, in order;
                             \* emptied when a connection is accepted or dropped
  wire,                      \* bytes the forwarding wrote to the held connection
  stopBeforeConnect,         \* starts stopped while unanswered and unconnected
  cleanupKinds               \* activeKind at the stop that scheduled each pending
                             \* setImmediate cleanup, oldest first

launchVars == <<launchedChild, launchedExecutableFullPath, launchedTerminalKind,
                launchedProcessId, launchedShellProcessId>>

fieldVars == <<debuggee, listener, pendingStartResponse, pendingSuccess, sessionToken,
               stopping, activeKind, launchVars, clientSupportsRunInTerminalRequest>>

envVars == <<platform, initialized, server, cont, sock, dead, batch, graceTimers,
             immediates, fresh, ritPending, startCount>>

obsVars == <<lastAction, lastArg, stepLog, sent, firstWrite, terminatedCount,
             released, connected, steps, initializedFor,
             arrived, wire, stopBeforeConnect, cleanupKinds>>

sessionVars == <<fieldVars, envVars, obsVars>>

vars == <<readerVars, sessionVars, auxVars>>

StartIds == 1..MaxStarts
SockIds == 1..MaxSockets
\* Sequence numbers of the IDE requests other than launch/attach (whose
\* numbers are 1..MaxStarts).
StopId == MaxStarts + 1
ForwardId == MaxStarts + 2
InitializeId == MaxStarts + 3
ChildPid(r) == 100 + r
TerminalPid(r) == 200 + r
ShellPid(r) == 300 + r

IntegratedShellPid(r) == 400 + r

Eff(op, id, code) == [op |-> op, id |-> id, code |-> code]

\* Launch/attach configurations: workingDirectory usable or not, executable
\* given and found / empty / not found, console preference, and whether
\* child_process.spawn throws.
Configs ==
  [wd : BOOLEAN, exe : {"ok", "empty", "missing"},
   console : {"none", "integratedTerminal", "externalTerminal"},
   spawnThrows : BOOLEAN]

\* One representative per behaviour: fields the code never reads for a
\* given request are fixed.
StartInputs ==
  { kc \in [kind : {"launch", "attach"}, cfg : Configs] :
      /\ (kc.kind = "attach" \/ ~kc.cfg.wd \/ kc.cfg.exe # "ok")
            => (kc.cfg.console = "none" /\ ~kc.cfg.spawnThrows)
      /\ (kc.kind = "attach" \/ ~kc.cfg.wd) => kc.cfg.exe = "ok"
      /\ kc.cfg.console # "none" => ~kc.cfg.spawnThrows }

noCfg == [wd |-> TRUE, exe |-> "ok", console |-> "none", spawnThrows |-> FALSE]

noCont == [pc |-> "none", tok |-> 0, kind |-> "none", cfg |-> noCfg]

doneCont == [noCont EXCEPT !.pc = "done"]

\* A start that was superseded while it awaits its bind: its token never
\* equals the current one again, and its kind and arguments are not read.
staleCont == [noCont EXCEPT !.pc = "awaitBind"]

InitSessionVars ==
  /\ debuggee = 0 /\ listener = 0
  /\ pendingStartResponse = 0 /\ pendingSuccess = TRUE
  /\ sessionToken = 0 /\ stopping = FALSE /\ activeKind = "none"
  /\ launchedChild = 0 /\ launchedExecutableFullPath = 0
  /\ launchedTerminalKind = "none"
  /\ launchedProcessId = 0 /\ launchedShellProcessId = 0
  /\ clientSupportsRunInTerminalRequest = FALSE
  /\ initialized = FALSE
  /\ server = [r \in StartIds |-> "none"]
  /\ cont = [r \in StartIds |-> noCont]
  /\ sock = [s \in SockIds |-> "none"]
  /\ dead = {}
  /\ batch = 0
  /\ graceTimers = {} /\ immediates = 0 /\ fresh = {} /\ ritPending = [r \in StartIds |-> "none"]
  /\ startCount = 0
  /\ lastAction = "init" /\ lastArg = 0 /\ stepLog = <<>>
  /\ sent = [r \in StartIds |-> <<>>]
  /\ firstWrite = [s \in SockIds |-> "none"]
  /\ terminatedCount = 0 /\ released = FALSE /\ connected = FALSE
  /\ stopBeforeConnect = {}
  /\ cleanupKinds = <<>>
  /\ initializedFor = {}
  /\ arrived = <<>> /\ wire = <<>>
  /\ steps = 0

\* ---------------------------------------------- session: helper functions
HasOp(log, op) == \E i \in 1..Len(log) : log[i].op = op

CountOp(log, op) == Cardinality({i \in 1..Len(log) : log[i].op = op})

\* Success flags of the responses the log sends for request r.
RECURSIVE ResponsesFor(_, _)
ResponsesFor(log, r) ==
  IF log = <<>> THEN <<>>
  ELSE (IF Head(log).op = "response" /\ Head(log).id = r
        THEN <<Head(log).code = 0>> ELSE <<>>) \o ResponsesFor(Tail(log), r)

WriteOps == {"welcome", "sis_exit", "request"}

RECURSIVE WritesTo(_, _)
WritesTo(log, s) ==
  IF log = <<>> THEN <<>>
  ELSE (IF Head(log).op \in WriteOps /\ Head(log).id = s
        THEN <<Head(log).op>> ELSE <<>>) \o WritesTo(Tail(log), s)

KillOps == {"killChild", "killProcessTree", "killImageTree", "killDescendants"}

HasKill(log) == \E i \in 1..Len(log) : log[i].op \in KillOps

\* Non-lifecycle requests of the IDE that reach a held connection, numbered
\* in the IDE's own seq space; a request refused for want of a connection
\* is ForwardId, its content being of no effect.
Requests == {1, 2}

\* JSON.stringify(request): request 2 carries a non-ASCII character in its
\* arguments, so its text is shorter than its UTF-8 encoding.
JSONstringify(q) == IF q = 1 THEN <<"a">> ELSE <<"e'", "a">>

\* seq of the adapter's first sis_exit request: customRequestSeq starts at 1.
SisExitSeq == 1

\* Frames a debuggee may send, by what JSON.parse makes of them.  valid:
\* the text parses; type: msg.type; name: msg.event or msg.command
\* ("notString" when it is missing or not a string); body: msg.body;
\* seq: msg.request_seq of a response.
DebuggeeMessages ==
  << [valid |-> FALSE, type |-> "none", name |-> "notString", body |-> "absent", seq |-> 0],
     [valid |-> TRUE, type |-> "request", name |-> "next", body |-> "absent", seq |-> 0],
     [valid |-> TRUE, type |-> "event", name |-> "notString", body |-> "object", seq |-> 0],
     [valid |-> TRUE, type |-> "response", name |-> "notString", body |-> "object", seq |-> 1],
     [valid |-> TRUE, type |-> "event", name |-> "stopped", body |-> "object", seq |-> 0],
     [valid |-> TRUE, type |-> "event", name |-> "stopped", body |-> "absent", seq |-> 0],
     [valid |-> TRUE, type |-> "event", name |-> "sis_adapter_internal", body |-> "absent", seq |-> 0],
     [valid |-> TRUE, type |-> "event", name |-> "sis_adapter_internal", body |-> "null", seq |-> 0],
     [valid |-> TRUE, type |-> "event", name |-> "sis_adapter_internal", body |-> "scalar", seq |-> 0],
     [valid |-> TRUE, type |-> "event", name |-> "sis_adapter_internal", body |-> "object", seq |-> 0],
     [valid |-> TRUE, type |-> "response", name |-> "next", body |-> "object", seq |-> 1],
     [valid |-> TRUE, type |-> "response", name |-> "sis_exit", body |-> "absent", seq |-> SisExitSeq] >>

MsgIds == 1..Len(DebuggeeMessages)

\* Names and bodies as the integers carried by an emitted event or response.
NameCode(name) ==
  CASE name = "stopped" -> 1
    [] name = "sis_adapter_internal" -> 2
    [] name = "next" -> 3
    [] name = "sis_exit" -> 4
    [] OTHER -> 0

BodyCode(body) ==
  CASE body = "absent" -> 0
    [] body = "null" -> 1
    [] body = "scalar" -> 2
    [] OTHER -> 3

\* msg?.type === 'event' && typeof msg.event === 'string'
isEvent(msg) == msg.valid /\ msg.type = "event" /\ msg.name # "notString"

\* msg?.type === 'response' && typeof msg.command === 'string'
isResponse(msg) == msg.valid /\ msg.type = "response" /\ msg.name # "notString"

\* A frame that is not valid JSON, or is JSON that is neither an event nor
\* a response.
Unhandled(msg) == ~isEvent(msg) /\ ~isResponse(msg)

\* Book-keeping of what a step sent, wrote and emitted.  socks is the
\* socket table after the step: the record of a socket ends with it.
\* Runs are explored up to MaxSteps handler executions.
Observe(action, arg, log, newSession, socks) ==
  /\ steps < MaxSteps
  /\ steps' = steps + 1
  /\ lastAction' = action
  /\ lastArg' = arg
  /\ stepLog' = log
  /\ sent' = [r \in StartIds |-> sent[r] \o ResponsesFor(log, r)]
  /\ firstWrite' = [s \in SockIds |->
                      IF socks[s] \in {"none", "gone"} THEN "none"
                      ELSE IF firstWrite[s] = "none" /\ WritesTo(log, s) # <<>>
                      THEN Head(WritesTo(log, s)) ELSE firstWrite[s]]
  /\ terminatedCount' = (IF newSession THEN 0 ELSE terminatedCount)
                          + CountOp(log, "terminated")
  /\ released' = ((~newSession /\ released) \/ HasOp(log, "shutdown"))
  /\ initializedFor' = initializedFor \cup
        {log[i].id : i \in {j \in 1..(Len(log) - 1) :
                               log[j].op = "response" /\ log[j + 1].op = "initialized"}}
  /\ arrived' = IF newSession \/ HasOp(log, "welcome") \/ HasOp(log, "shutdown")
                THEN <<>>
                ELSE IF action = "forwardRequestToDebuggee" /\ debuggee # 0
                THEN Append(arrived, arg) ELSE arrived
  /\ cleanupKinds' = IF HasOp(log, "setImmediate") THEN Append(cleanupKinds, activeKind)
                     ELSE IF action = "immediate" THEN Tail(cleanupKinds)
                     ELSE cleanupKinds
  /\ wire' = IF newSession \/ HasOp(log, "welcome") \/ HasOp(log, "shutdown")
             THEN <<>>
             ELSE wire \o Flatten([i \in 1..Len(log) |->
                                     IF log[i].op = "request"
                                     THEN sendRawJsonText(JSONstringify(log[i].code))
                                     ELSE <<>>])

\* No listen() is in flight.  listen() on an IP literal completes on the
\* next tick, ahead of every socket, timer and immediate callback; only
\* requests parsed from the same input chunk are dispatched before it.
NoBindInFlight == \A r \in StartIds : server[r] \notin {"binding", "bindingClosed"}

\* No setImmediate callback is pending.  Immediates run in the check phase
\* of the loop iteration that scheduled them: after the requests of the
\* current input chunk, the next-tick work and the socket events that were
\* ready in the same poll, ahead of every timer and of every event of a
\* server or request created since they were scheduled (fresh).
NoImmediatePending == immediates = 0

\* server.close(): a listening server stops listening ("none"); on a server
\* whose listen() has not completed, the bind outcome may still be reported.
serverAfterClose(st) ==
  CASE st = "listening" -> "none"
    [] st = "binding" -> "bindingClosed"
    [] OTHER -> st

\* socket.destroy(): 'close' is emitted later; no more 'data'.
sockAfterDestroy(st) == IF st = "open" THEN "destroyed" ELSE st

\* closeListener()
closeListenerLog == IF listener # 0 THEN <<Eff("closeServer", listener, 0)>> ELSE <<>>

closeListenerServers(srv) ==
  IF listener # 0 THEN [srv EXCEPT ![listener] = serverAfterClose(@)] ELSE srv

\* closeDebuggee()
closeDebuggeeLog == IF debuggee # 0 THEN <<Eff("destroySocket", debuggee, 0)>> ELSE <<>>

closeDebuggeeSocks == IF debuggee # 0 THEN [sock EXCEPT ![debuggee] = sockAfterDestroy(@)] ELSE sock

\* killLaunchedProcesses(): the pids handed to killProcessTreeBestEffort, in
\* the insertion order of the Set.
killPids ==
  (IF launchedChild # 0 THEN <<launchedChild>> ELSE <<>>)
  \o (IF launchedTerminalKind = "external"
      THEN (IF launchedProcessId # 0 THEN <<launchedProcessId>> ELSE <<>>)
           \o (IF launchedShellProcessId # 0 /\ launchedShellProcessId # launchedProcessId
               THEN <<launchedShellProcessId>> ELSE <<>>)
      ELSE <<>>)

killLaunchedProcessesLog ==
  (IF launchedChild # 0 THEN <<Eff("killChild", launchedChild, 0)>> ELSE <<>>)
  \o [i \in 1..Len(killPids) |-> Eff("killProcessTree", killPids[i], 0)]

killLaunchedProcessesClear ==
  /\ launchedChild' = 0
  /\ launchedProcessId' = 0
  /\ launchedShellProcessId' = 0
  /\ launchedTerminalKind' = "none"
  /\ launchedExecutableFullPath' = 0

\* ++this.sessionToken / this.sessionToken++ : every start that awaits its
\* bind and every pending grace timer is stale from now on.
contAfterBump == [r \in StartIds |-> IF cont[r].pc = "awaitBind" THEN staleCont ELSE cont[r]]

graceAfterBump == IF graceTimers = {} THEN {} ELSE {0}

\* ------------------------------------------------- session: the handlers
\* if (this.debuggee) in onDebuggeeSocket
holdsDebuggee_never == FALSE

holdsDebuggee == debuggee # 0

\* if (!this.debuggee) in forwardRequestToDebuggee
notConnected_onlyWhileListening == debuggee = 0 /\ listener # 0

notConnected == debuggee = 0

\* if (this.stopping) in stopDebuggingSession
alreadyStopping_never == FALSE

alreadyStopping == stopping

\* What onDebuggeeSocket does, in program order, when it accepts socket s
\* while the response of start p (0: none) is pending.
acceptLog(s, p) ==
  closeListenerLog
  \o <<Eff("welcome", s, 0)>>
  \o (IF p # 0 THEN <<Eff("response", p, IF pendingSuccess THEN 0 ELSE 1),
                      Eff("initialized", 0, 0)>> ELSE <<>>)

\* initializeRequest
Initialize ==
  \E supports \in BOOLEAN :
    /\ ~initialized /\ batch = 0
    /\ initialized' = TRUE
    /\ clientSupportsRunInTerminalRequest' = supports
    /\ Observe("initializeRequest", InitializeId, <<Eff("response", InitializeId, 0)>>,
               FALSE, sock)
    /\ UNCHANGED <<debuggee, listener, pendingStartResponse, pendingSuccess,
                   sessionToken, stopping, activeKind, launchVars, platform, server,
                   cont, sock, dead, batch, graceTimers, immediates, fresh, ritPending,
                   startCount, connected, stopBeforeConnect, readerVars, auxVars>>

\* launchRequest / attachRequest: startDebuggingSession up to the await of
\* openListener (or to the return after 'Invalid configuration').
StartRequest ==
  \E kc \in StartInputs :
    LET r == startCount + 1
        ok == kc.cfg.wd       \* readBasicConfiguration(args)
        log == killLaunchedProcessesLog \o closeListenerLog \o closeDebuggeeLog
               \o (IF ok THEN <<Eff("listen", r, 0)>> ELSE <<Eff("response", r, 3000)>>)
    IN /\ initialized /\ batch = 0 /\ startCount < MaxStarts
       /\ startCount' = r
       /\ sessionToken' = sessionToken + 1
       /\ stopping' = FALSE
       /\ activeKind' = kc.kind
       /\ killLaunchedProcessesClear
       /\ debuggee' = 0
       /\ sock' = closeDebuggeeSocks
       /\ dead' = dead \ {debuggee}
       /\ listener' = IF ok THEN r ELSE 0
       /\ server' = IF ok THEN [closeListenerServers(server) EXCEPT ![r] = "binding"]
                    ELSE closeListenerServers(server)
       /\ cont' = [contAfterBump EXCEPT ![r] =
                     IF ok THEN [pc |-> "awaitBind", tok |-> sessionToken + 1,
                                 kind |-> kc.kind, cfg |-> kc.cfg]
                     ELSE doneCont]
       /\ graceTimers' = graceAfterBump
       /\ fresh' = IF NoImmediatePending THEN fresh ELSE fresh \cup {r}
       /\ connected' = FALSE
       /\ Observe("startDebuggingSession", r, log, TRUE, closeDebuggeeSocks)
       /\ UNCHANGED <<pendingStartResponse, pendingSuccess,
                      clientSupportsRunInTerminalRequest, platform, initialized, batch,
                      immediates, ritPending, stopBeforeConnect, readerVars, auxVars>>

\* if (!server) return;  what startDebuggingSession does when it resumes
\* after a failed bind.
resumeWithoutServer_launches(r) == <<Eff("spawn", ChildPid(r), 0)>>

resumeWithoutServer(r) == <<>>

\* openListener's onError, then the continuation of startDebuggingSession
\* with server === undefined.
BindError ==
  \E r \in StartIds :
    /\ cont[r].pc = "awaitBind"
    /\ cont' = [cont EXCEPT ![r] = doneCont]
    /\ server' = [server EXCEPT ![r] = "none"]
    /\ listener' = 0
    /\ Observe("onError", r, <<Eff("response", r, 3015)>> \o resumeWithoutServer(r),
               FALSE, sock)
    /\ UNCHANGED <<debuggee, pendingStartResponse, pendingSuccess, sessionToken,
                   stopping, activeKind, launchVars,
                   clientSupportsRunInTerminalRequest, platform, initialized, sock,
                   dead, batch, graceTimers, immediates, fresh, ritPending, startCount,
                   connected, stopBeforeConnect, readerVars, auxVars>>

\* server.listen() on a server that was closed before its bind completed:
\* depending on the runtime's version the bind is abandoned (neither
\* 'listening' nor 'error' is emitted, the await never resumes) or it goes
\* ahead as in BindListening / BindError.
BindCancelled ==
  \E r \in StartIds :
    /\ server[r] = "bindingClosed"
    /\ server' = [server EXCEPT ![r] = "none"]
    /\ cont' = [cont EXCEPT ![r] = doneCont]
    /\ Observe("listen.cancelled", r, <<>>, FALSE, sock)
    /\ UNCHANGED <<fieldVars, platform, initialized, sock, dead, batch, graceTimers,
                   immediates, fresh, ritPending, startCount, connected, stopBeforeConnect,
                   readerVars, auxVars>>

\* launchTargetProcess(response, args) for start r.
launchTargetProcess(r, cfg) ==
  IF cfg.exe = "empty"
  THEN [ok |-> FALSE, exe |-> launchedExecutableFullPath,
        kind |-> launchedTerminalKind, child |-> launchedChild, rit |-> FALSE,
        log |-> <<Eff("response", r, 3005)>>]
  ELSE IF cfg.exe = "missing"
  THEN [ok |-> FALSE, exe |-> launchedExecutableFullPath,
        kind |-> launchedTerminalKind, child |-> launchedChild, rit |-> FALSE,
        log |-> <<Eff("response", r, 3006)>>]
  ELSE IF cfg.console \in {"integratedTerminal", "externalTerminal"}
  THEN IF ~clientSupportsRunInTerminalRequest
       THEN [ok |-> FALSE, exe |-> r,
             kind |-> launchedTerminalKind, child |-> launchedChild, rit |-> FALSE,
             log |-> <<Eff("response", r, 3010)>>]
       ELSE [ok |-> TRUE, exe |-> r,
             kind |-> IF cfg.console = "integratedTerminal" THEN "integrated" ELSE "external",
             child |-> launchedChild, rit |-> TRUE,
             log |-> <<Eff("runInTerminal", r,
                           IF cfg.console = "integratedTerminal" THEN 1 ELSE 0)>>]
  ELSE [ok |-> TRUE, exe |-> r, kind |-> launchedTerminalKind,
        child |-> ChildPid(r), rit |-> FALSE, log |-> <<Eff("spawn", ChildPid(r), 0)>>]

\* if (startToken !== this.sessionToken) after the await, for the suspended
\* start c.
startIsStale_never(c) == FALSE

startIsStale(c) == c.tok # sessionToken

\* openListener's onListening, then the continuation of
\* startDebuggingSession after the await.
BindListening ==
  \E r \in StartIds :
    LET c == cont[r]
        stale == startIsStale(c)
        listening == [server EXCEPT ![r] = "listening"]
        lt == launchTargetProcess(r, c.cfg)
        throws == c.kind = "launch" /\ c.cfg.exe = "ok" /\ c.cfg.console = "none"
                  /\ c.cfg.spawnThrows
        waiting == <<Eff("output", 0, 0)>>
    IN /\ c.pc = "awaitBind"
       /\ cont' = [cont EXCEPT ![r] = doneCont]
       /\ IF stale
          THEN /\ server' = [server EXCEPT ![r] = "none"]
               /\ Observe("startDebuggingSession.resume", r,
                          <<Eff("closeServer", r, 0)>>, FALSE, sock)
               /\ UNCHANGED <<listener, pendingStartResponse, pendingSuccess,
                              launchVars, debuggee, sock, dead, ritPending>>
          ELSE /\ pendingStartResponse' = r
               /\ IF c.kind = "attach"
                  THEN /\ server' = listening
                       /\ pendingSuccess' = TRUE
                       /\ Observe("startDebuggingSession.resume", r, waiting, FALSE, sock)
                       /\ UNCHANGED <<listener, launchVars, debuggee, sock, dead,
                                      ritPending>>
                  ELSE IF throws
                  THEN \* catch (e): 3001, closeListener, closeDebuggee
                       /\ launchedExecutableFullPath' = r
                       /\ pendingSuccess' = FALSE
                       /\ server' = closeListenerServers(listening)
                       /\ listener' = 0
                       /\ debuggee' = 0
                       /\ sock' = closeDebuggeeSocks
                       /\ dead' = dead \ {debuggee}
                       /\ Observe("startDebuggingSession.resume", r,
                                  <<Eff("response", r, 3001)>> \o closeListenerLog
                                     \o closeDebuggeeLog, FALSE, closeDebuggeeSocks)
                       /\ UNCHANGED <<launchedChild, launchedTerminalKind,
                                      launchedProcessId, launchedShellProcessId,
                                      ritPending>>
                  ELSE /\ launchedExecutableFullPath' = lt.exe
                       /\ launchedTerminalKind' = lt.kind
                       /\ launchedChild' = lt.child
                       /\ ritPending' = IF lt.rit THEN [ritPending EXCEPT ![r] = lt.kind] ELSE ritPending
                       /\ pendingSuccess' = lt.ok
                       /\ server' = IF lt.ok THEN listening
                                    ELSE closeListenerServers(listening)
                       /\ listener' = IF lt.ok THEN listener ELSE 0
                       /\ Observe("startDebuggingSession.resume", r,
                                  lt.log \o (IF lt.ok THEN waiting ELSE closeListenerLog),
                                  FALSE, sock)
                       /\ UNCHANGED <<launchedProcessId, launchedShellProcessId,
                                      debuggee, sock, dead>>
       /\ UNCHANGED <<sessionToken, stopping, activeKind,
                      clientSupportsRunInTerminalRequest, platform, initialized,
                      batch, graceTimers, immediates, fresh, startCount, connected,
                      stopBeforeConnect, readerVars, auxVars>>

\* The callback passed to runInTerminalRequest: the IDE's reply or the
\* 15 s timeout.  A successful reply may carry either id, or both.
RunInTerminalReply ==
  \E r \in {x \in StartIds : ritPending[x] # "none"},
     outcome \in {"fail", "both", "pidOnly", "shellOnly"} :
    /\ NoBindInFlight /\ r \notin fresh /\ batch = 0
    /\ ritPending' = [ritPending EXCEPT ![r] = "none"]
    /\ IF outcome = "fail"
       THEN /\ Observe("runInTerminal.reply", r, <<Eff("output", 0, 0)>>, FALSE, sock)
            /\ UNCHANGED <<launchedProcessId, launchedShellProcessId>>
       ELSE /\ launchedProcessId' = IF outcome \in {"both", "pidOnly"} THEN TerminalPid(r) ELSE 0
            /\ launchedShellProcessId' =
                 IF outcome \notin {"both", "shellOnly"} THEN 0
                 ELSE IF ritPending[r] = "integrated" THEN IntegratedShellPid(r)
                 ELSE ShellPid(r)
            /\ Observe("runInTerminal.reply", r, <<>>, FALSE, sock)
    /\ UNCHANGED <<debuggee, listener, pendingStartResponse, pendingSuccess,
                   sessionToken, stopping, activeKind, launchedChild,
                   launchedExecutableFullPath, launchedTerminalKind,
                   clientSupportsRunInTerminalRequest, platform, initialized, server,
                   cont, sock, dead, batch, graceTimers, immediates, fresh, startCount,
                   connected, stopBeforeConnect, readerVars, auxVars>>

\* disconnectRequest / terminateRequest: stopDebuggingSession(response).
StopRequest ==
  LET id == StopId
      p == pendingStartResponse
      answers == (IF p # 0 THEN <<Eff("response", p, 0)>> ELSE <<>>)
                 \o <<Eff("response", id, 0)>>
      tok == sessionToken + 1
      cooperative == activeKind = "launch" /\ debuggee # 0
      imageKill == activeKind = "launch" /\ platform = "win32"
                   /\ launchedExecutableFullPath # 0
      latest == startCount
  IN /\ batch = 0
     /\ pendingStartResponse' = 0
     /\ pendingSuccess' = TRUE
     /\ stopBeforeConnect' =
          IF latest # 0 /\ ~connected /\ sent[latest] = <<>>
          THEN stopBeforeConnect \cup {latest} ELSE stopBeforeConnect
     /\ IF alreadyStopping
        THEN /\ Observe("stopDebuggingSession", id, answers, FALSE, sock)
             /\ UNCHANGED <<sessionToken, stopping, graceTimers, immediates, cont>>
        ELSE /\ stopping' = TRUE
             /\ sessionToken' = tok
             /\ cont' = contAfterBump
             /\ IF cooperative
                THEN /\ graceTimers' = graceAfterBump \cup {tok}
                     /\ immediates' = immediates
                     /\ Observe("stopDebuggingSession", id,
                                answers \o <<Eff("terminated", 0, 0),
                                             Eff("sis_exit", debuggee, 0),
                                             Eff("setTimeout", tok, 0)>>, FALSE, sock)
                ELSE /\ immediates' = immediates + 1
                     /\ graceTimers' = graceAfterBump
                     /\ Observe("stopDebuggingSession", id,
                                answers \o <<Eff("terminated", 0, 0)>>
                                  \o (IF imageKill
                                      THEN <<Eff("killImageTree", launchedExecutableFullPath, 0)>>
                                      ELSE <<>>)
                                  \o <<Eff("setImmediate", tok, 0)>>, FALSE, sock)
     /\ UNCHANGED <<debuggee, listener, activeKind, launchVars,
                    clientSupportsRunInTerminalRequest, platform, initialized, server,
                    sock, dead, batch, fresh, ritPending, startCount, connected,
                    readerVars, auxVars>>

\* killLaunchedProcesses(); closeListener(); closeDebuggee(); shutdown()
cleanupLog_closeFirst ==
  closeListenerLog \o closeDebuggeeLog \o killLaunchedProcessesLog
  \o <<Eff("shutdown", 0, 0)>>

cleanupLog ==
  killLaunchedProcessesLog \o closeListenerLog \o closeDebuggeeLog
  \o <<Eff("shutdown", 0, 0)>>

cleanupState ==
  /\ killLaunchedProcessesClear
  /\ server' = closeListenerServers(server)
  /\ listener' = 0
  /\ sock' = closeDebuggeeSocks
  /\ dead' = dead \ {debuggee}
  /\ debuggee' = 0

\* The win32-only kill at the head of the grace timer callback.
graceKillLog ==
  IF platform = "win32"
  THEN IF launchedTerminalKind = "integrated" /\ launchedShellProcessId # 0
       THEN <<Eff("killDescendants", launchedShellProcessId, 0)>>
       ELSE IF launchedExecutableFullPath # 0
       THEN <<Eff("killImageTree", launchedExecutableFullPath, 0)>>
       ELSE <<>>
  ELSE <<>>

\* The setTimeout(..., 250) callback of a stop with a connected launch.
GraceTimer ==
  \E tok \in graceTimers :
    /\ NoBindInFlight /\ NoImmediatePending /\ batch = 0
    /\ graceTimers' = graceTimers \ {tok}
    /\ IF tok # sessionToken
       THEN /\ Observe("graceTimer", tok, <<>>, FALSE, sock)
            /\ UNCHANGED <<launchVars, server, listener, sock, dead, debuggee>>
       ELSE /\ cleanupState
            /\ Observe("graceTimer", tok, graceKillLog \o cleanupLog, FALSE,
                       closeDebuggeeSocks)
    /\ UNCHANGED <<pendingStartResponse, pendingSuccess, sessionToken, stopping,
                   activeKind, clientSupportsRunInTerminalRequest, platform,
                   initialized, cont, batch, immediates, fresh, ritPending, startCount,
                   connected, stopBeforeConnect, readerVars, auxVars>>

\* The setImmediate callback of a stop without a connected launch.
Immediate ==
  /\ immediates > 0
  /\ NoBindInFlight /\ batch = 0
  /\ immediates' = immediates - 1
  /\ fresh' = IF immediates = 1 THEN {} ELSE fresh
  /\ cleanupState
  /\ Observe("immediate", 0, cleanupLog, FALSE, closeDebuggeeSocks)
  /\ UNCHANGED <<pendingStartResponse, pendingSuccess, sessionToken, stopping,
                 activeKind, clientSupportsRunInTerminalRequest, platform,
                 initialized, cont, batch, graceTimers, ritPending, startCount,
                 connected, stopBeforeConnect, readerVars, auxVars>>

\* onDebuggeeSocket(socket) for the fresh socket s.
onDebuggeeSocket(s) ==
  IF holdsDebuggee
  THEN /\ sock' = [sock EXCEPT ![s] = "gone"]
       /\ Observe("onDebuggeeSocket", s, <<Eff("destroySocket", s, 0)>>, FALSE,
                  [sock EXCEPT ![s] = "gone"])
       /\ UNCHANGED <<debuggee, listener, server, pendingStartResponse,
                      pendingSuccess, connected>>
  ELSE /\ sock' = [sock EXCEPT ![s] = "open"]
       /\ server' = closeListenerServers(server)
       /\ listener' = 0
       /\ debuggee' = s
       /\ pendingStartResponse' = 0
       /\ pendingSuccess' = TRUE
       /\ connected' = TRUE
       /\ Observe("onDebuggeeSocket", s, acceptLog(s, pendingStartResponse), FALSE,
                  [sock EXCEPT ![s] = "open"])

FreshSock == CHOOSE s \in SockIds : sock[s] = "none" /\ \A t \in SockIds : t < s => sock[t] # "none"

connectionFrame ==
  UNCHANGED <<sessionToken, stopping, activeKind, launchVars,
              clientSupportsRunInTerminalRequest, platform, initialized, cont, dead,
              graceTimers, immediates, fresh, ritPending, startCount, stopBeforeConnect,
              readerVars, auxVars>>

\* 'connection' on a listening server.  The accept batch may hold one more
\* connection, emitted next.
Connection ==
  \E r \in StartIds, more \in 0..1 :
    /\ NoBindInFlight /\ r \notin fresh /\ batch = 0
    /\ server[r] = "listening"
    /\ Cardinality({s \in SockIds : sock[s] = "none"}) > more
    /\ onDebuggeeSocket(FreshSock)
    /\ batch' = more
    /\ connectionFrame

\* The next 'connection' of the same accept batch.
ConnectionNext ==
  /\ batch > 0
  /\ onDebuggeeSocket(FreshSock)
  /\ batch' = batch - 1
  /\ connectionFrame

\* onDebuggeeDisconnected()
onDebuggeeDisconnectedLog ==
  IF stopping THEN <<Eff("shutdown", 0, 0)>>
  ELSE <<Eff("terminated", 0, 0), Eff("shutdown", 0, 0)>>

socketEventFrame ==
  UNCHANGED <<listener, pendingStartResponse, pendingSuccess, sessionToken, stopping,
              activeKind, launchVars, clientSupportsRunInTerminalRequest, platform,
              initialized, server, cont, batch, graceTimers, immediates, fresh, ritPending,
              startCount, connected, stopBeforeConnect, readerVars, auxVars>>

\* 'data' carrying a header the reader rejects: onSocketClosed().
DebuggeeBadFrame ==
  \E s \in SockIds :
    /\ NoBindInFlight /\ batch = 0
    /\ sock[s] = "open" /\ s \notin dead
    /\ dead' = dead \cup {s}
    /\ debuggee' = 0
    /\ Observe("onData.framingError", s, onDebuggeeDisconnectedLog, FALSE, sock)
    /\ UNCHANGED sock
    /\ socketEventFrame

\* socket 'error'
DebuggeeSocketError ==
  \E s \in SockIds :
    /\ NoBindInFlight /\ batch = 0
    /\ sock[s] = "open"
    /\ sock' = [sock EXCEPT ![s] = "errored"]
    /\ dead' = dead \ {s}
    /\ debuggee' = 0
    /\ Observe("socket.error", s, onDebuggeeDisconnectedLog, FALSE,
               [sock EXCEPT ![s] = "errored"])
    /\ socketEventFrame

\* socket 'close': after the peer closed, after 'error', after destroy().
DebuggeeSocketClose ==
  \E s \in SockIds :
    /\ NoBindInFlight /\ batch = 0
    /\ sock[s] \in {"open", "errored", "destroyed"}
    /\ sock' = [sock EXCEPT ![s] = "gone"]
    /\ dead' = dead \ {s}
    /\ debuggee' = 0
    /\ Observe("socket.close", s, onDebuggeeDisconnectedLog, FALSE,
               [sock EXCEPT ![s] = "gone"])
    /\ socketEventFrame

\* onDebuggeeJsonText(jsonText) for one complete frame.
onDebuggeeJsonTextLog_silentOnBadJson(msg) ==
  IF ~msg.valid THEN <<>>
  ELSE IF isEvent(msg) THEN <<Eff("event", NameCode(msg.name), BodyCode(msg.body))>>
  ELSE IF isResponse(msg) THEN <<Eff("forwardedResponse", msg.seq, NameCode(msg.name))>>
  ELSE <<Eff("output", 0, 0)>>

onDebuggeeJsonTextLog(msg) ==
  IF ~msg.valid THEN <<Eff("output", 0, 0)>>
  ELSE IF isEvent(msg)
  THEN IF msg.name = "sis_adapter_internal" /\ msg.body = "object"
       THEN <<>>
       ELSE <<Eff("event", NameCode(msg.name), BodyCode(msg.body))>>
  ELSE IF isResponse(msg)
  THEN <<Eff("forwardedResponse", msg.seq, NameCode(msg.name))>>
  ELSE <<Eff("output", 0, 0)>>

DebuggeeMessage ==
  \E s \in SockIds, m \in MsgIds :
    /\ NoBindInFlight /\ batch = 0
    /\ sock[s] = "open" /\ s \notin dead
    /\ Observe("onDebuggeeJsonText", m, onDebuggeeJsonTextLog(DebuggeeMessages[m]),
               FALSE, sock)
    /\ UNCHANGED <<debuggee, sock, dead>>
    /\ socketEventFrame

\* forwardRequestToDebuggee(request) while a connection is held.
forwardWrites_twice(q) ==
  <<Eff("request", debuggee, q), Eff("request", debuggee, q)>>

forwardWrites(q) == <<Eff("request", debuggee, q)>>

\* dispatchRequest's default branch: forwardRequestToDebuggee(request).
ForwardRequest ==
  \E q \in IF notConnected THEN {ForwardId} ELSE Requests :
    /\ batch = 0
    /\ IF notConnected
       THEN Observe("forwardRequestToDebuggee", q, <<Eff("response", q, 999)>>,
                    FALSE, sock)
       ELSE IF debuggee # 0
       THEN Observe("forwardRequestToDebuggee", q, forwardWrites(q), FALSE, sock)
       ELSE Observe("forwardRequestToDebuggee", q, <<>>, FALSE, sock)
    /\ UNCHANGED <<fieldVars, platform, initialized, server, cont, sock, dead, batch,
                   graceTimers, immediates, fresh, ritPending, startCount, connected,
                   stopBeforeConnect, readerVars, auxVars>>

\* ------------------------------------------------- reader: the handlers
\* socket 'data': the next n bytes of the stream arrive as one chunk.
SocketData ==
  \E n \in 1..(Len(stream) - pos) :
    /\ socketState = "open"
    /\ rd' = onData(rd, SubSeq(stream, pos + 1, pos + n))
    /\ pos' = pos + n
    /\ lastCut' = pos
    /\ fatalAt' = IF fatalAt = -1 /\ rd'.closed > rd.closed
                  THEN Len(rd'.messages) ELSE fatalAt
    /\ UNCHANGED <<frames, stream, socketState, sessionVars, auxVars>>

\* socket 'error': () => this.onSocketClosed()
SocketError ==
  /\ socketState = "open"
  /\ socketState' = "errored"
  /\ rd' = [rd EXCEPT !.closed = @ + 1]
  /\ UNCHANGED <<frames, stream, pos, lastCut, fatalAt, sessionVars, auxVars>>

\* socket 'close': () => this.onSocketClosed().  Node emits 'close' after
\* 'error', and after the peer ends the stream.
SocketClose ==
  /\ socketState \in {"open", "errored"}
  /\ socketState' = "closed"
  /\ rd' = [rd EXCEPT !.closed = @ + 1]
  /\ UNCHANGED <<frames, stream, pos, lastCut, fatalAt, sessionVars, auxVars>>


\* --------------------------------------------- configuration: the listen port
MaxPortChars == 5

\* Characters of a configured port: digits that spell 0, 65535, 65536 and
\* 56789-like values, a sign and a letter.
PortChars == {"0", "3", "5", "6", "-", "a"}

PortInputs == {Absent} \cup SeqsUpTo(PortChars, MaxPortChars)

\* String(cfg.listenPort ?? '')
listenPortText(v) == IF v = Absent THEN <<>> ELSE v

DefaultPort == 56789

\* Number.isFinite(port) && port > 0
portAccepted(port) == ~port.nan /\ port.val > 0

\* The listenPort lines of readBasicConfiguration.
readListenPort(v) ==
  LET port == parseInt(listenPortText(v))
  IN IF portAccepted(port) THEN port.val ELSE DefaultPort

InitPort ==
  /\ IdleReaderVars /\ InitSessionVars /\ platform = "posix"
  /\ cfgListenPort \in PortInputs /\ listenPort = NotRead
  /\ commandLine = <<>> /\ args = NotSplit
  /\ InitSyntaxVars

ReadListenPort ==
  /\ listenPort = NotRead
  /\ listenPort' = readListenPort(cfgListenPort)
  /\ UNCHANGED <<cfgListenPort, commandLine, args, readerVars, sessionVars, syntaxVars>>

SpecPort == InitPort /\ [][ReadListenPort]_vars

InitReader == InitReaderVars /\ InitSessionVars /\ platform = "posix" /\ IdleAuxVars

NextReader == SocketData \/ SocketError \/ SocketClose

SpecReader == InitReader /\ [][NextReader]_vars

Init ==
  /\ InitSessionVars
  /\ platform \in {"win32", "posix"}
  /\ IdleReaderVars
  /\ IdleAuxVars

Next ==
  \/ Initialize
  \/ StartRequest
  \/ BindError
  \/ BindListening
  \/ BindCancelled
  \/ RunInTerminalReply
  \/ StopRequest
  \/ GraceTimer
  \/ Immediate
  \/ Connection
  \/ ConnectionNext
  \/ DebuggeeBadFrame
  \/ DebuggeeSocketError
  \/ DebuggeeSocketClose
  \/ DebuggeeMessage
  \/ ForwardRequest

Spec == Init /\ [][Next]_vars

TypeOK ==
  /\ debuggee \in 0..MaxSockets
  /\ listener \in 0..MaxStarts
  /\ debuggee # 0 => sock[debuggee] = "open"
  /\ stopping => pendingStartResponse = 0

\* --------------------------------------------------- splitCommandLine
MaxCmdChars == 5

Quote == "\""

\* /\s/.test(ch)
isWhitespace(ch) == ch \in {" ", "\t"}

CmdChars == {"a", "b", " ", Quote}

CmdInputs == SeqsUpTo(CmdChars, MaxCmdChars)

\* if (current.length > 0) { args.push(current); }
pushCurrent_always(out, current) == Append(out, current)

pushCurrent(out, current) == IF Len(current) > 0 THEN Append(out, current) ELSE out

\* The for loop of splitCommandLine from index i (1-based) on, and the
\* final push.
RECURSIVE splitLoop(_, _, _, _, _)
splitLoop(line, i, current, inQuotes, out) ==
  IF i > Len(line) THEN pushCurrent(out, current)
  ELSE LET ch == line[i]
       IN IF ch = Quote
          THEN IF inQuotes /\ i + 1 <= Len(line) /\ line[i + 1] = Quote
               THEN splitLoop(line, i + 2, Append(current, Quote), inQuotes, out)
               ELSE splitLoop(line, i + 1, current, ~inQuotes, out)
          ELSE IF ~inQuotes /\ isWhitespace(ch)
          THEN splitLoop(line, i + 1, <<>>, inQuotes, pushCurrent(out, current))
          ELSE splitLoop(line, i + 1, Append(current, ch), inQuotes, out)

splitCommandLine(line) == splitLoop(line, 1, <<>>, FALSE, <<>>)

InitSplit ==
  /\ IdleReaderVars /\ InitSessionVars /\ platform = "posix"
  /\ cfgListenPort = Absent /\ listenPort = NotRead
  /\ commandLine \in CmdInputs /\ args = NotSplit
  /\ InitSyntaxVars

SplitCommandLine ==
  /\ args = NotSplit
  /\ args' = splitCommandLine(commandLine)
  /\ UNCHANGED <<cfgListenPort, listenPort, commandLine, readerVars, sessionVars, syntaxVars>>

SpecSplit == InitSplit /\ [][SplitCommandLine]_vars

\* ------------------------------------------- SisLuaSyntaxServer: handlers
\* Lines the readline interface may deliver: without the protocol prefix,
\* with a body that is not JSON, the ready event, a message whose id is not
\* a number, and a response to any id the child may name, ok or not.
StdoutLines ==
  {[kind |-> k, id |-> 0, ok |-> FALSE] : k \in {"noPrefix", "badJson", "ready", "noId"}}
  \cup {[kind |-> "response", id |-> i, ok |-> b] : i \in 1..(MaxRequests + 1), b \in BOOLEAN}

pendingHas(id) == id \in RequestIds /\ pending[id] # 0

\* rejectAllPending(err): every entry's timer is cleared and its promise
\* rejected, then the map is emptied.
rejected(err) ==
  [p \in PromiseIds |->
     IF \E i \in RequestIds : pending[i] = p THEN Append(settledBy[p], err)
     ELSE settledBy[p]]

clearedTimeouts_none == timeouts

clearedTimeouts == timeouts \ {i \in RequestIds : pending[i] # 0}

noPending == [i \in RequestIds |-> 0]

rejectAllPending(err) ==
  /\ settledBy' = rejected(err)
  /\ pending' = noPending
  /\ timeouts' = clearedTimeouts

syntaxFrame == UNCHANGED <<readerVars, sessionVars, pureVars>>

\* stop(), as the providers and dispose() call it.
stop ==
  /\ rl' = 0
  /\ child' = 0
  /\ rejectAllPending("server stopped")
  /\ lastResponseId' = 0
  /\ UNCHANGED <<spawned, childEvents, nextId, calls, idOf>>
  /\ syntaxFrame

\* child.on('exit') and child.on('error') of process c.
childEvent ==
  \E c \in ChildIds, ev \in {"exit", "error"} :
    /\ ev \in childEvents[c]
    /\ childEvents' = [childEvents EXCEPT ![c] = @ \ {ev}]
    /\ IF child = c
       THEN /\ child' = 0
            /\ rejectAllPending(IF ev = "exit" THEN "server exited" ELSE "error")
       ELSE UNCHANGED <<child, pending, timeouts, settledBy>>
    /\ lastResponseId' = 0
    /\ UNCHANGED <<rl, spawned, nextId, calls, idOf>>
    /\ syntaxFrame

\* checkSyntax / tokenize up to their await: isStartedForDocument or
\* ensureStartedForDocument, which calls start() (stop(), then spawn) unless
\* a child runs for the document's folder, then sendRequest, whose write to
\* the child's stdin may throw.  A call that returns without sendRequest
\* (not started, text too long) leaves the state as it is.
checkSyntax ==
  \E startIfNeeded \in BOOLEAN, sameFolder \in BOOLEAN, writeThrows \in BOOLEAN :
    LET started == child # 0 /\ sameFolder
        p == calls + 1
        id == nextId
        before == IF started THEN settledBy ELSE rejected("server stopped")
    IN /\ calls < MaxRequests
       /\ started \/ (startIfNeeded /\ spawned < MaxChildren)
       /\ IF started
          THEN UNCHANGED <<child, rl, spawned, childEvents>>
          ELSE /\ spawned' = spawned + 1
               /\ child' = spawned + 1
               /\ rl' = spawned + 1
               /\ childEvents' = [childEvents EXCEPT ![spawned + 1] = {"exit", "error"}]
       /\ calls' = p
       /\ nextId' = nextId + 1
       /\ idOf' = [idOf EXCEPT ![p] = id]
       /\ lastResponseId' = 0
       /\ IF writeThrows
          THEN /\ settledBy' = [before EXCEPT ![p] = Append(@, "write failed")]
               /\ pending' = IF started THEN [pending EXCEPT ![id] = 0] ELSE noPending
               /\ timeouts' = (IF started THEN timeouts ELSE clearedTimeouts) \ {id}
          ELSE /\ settledBy' = before
               /\ pending' = [(IF started THEN pending ELSE noPending) EXCEPT ![id] = p]
               /\ timeouts' = (IF started THEN timeouts ELSE clearedTimeouts) \cup {id}
       /\ syntaxFrame

\* The setTimeout(..., REQUEST_TIMEOUT_MS) callback of request id: it
\* deletes the entry of its id and rejects the promise of its own call.
requestTimeout ==
  \E id \in timeouts :
    /\ timeouts' = timeouts \ {id}
    /\ pending' = [pending EXCEPT ![id] = 0]
    /\ settledBy' = [p \in PromiseIds |->
                       IF idOf[p] = id THEN Append(settledBy[p], "timeout")
                       ELSE settledBy[p]]
    /\ lastResponseId' = 0
    /\ UNCHANGED <<child, rl, spawned, childEvents, nextId, calls, idOf>>
    /\ syntaxFrame

\* if (!pending) return;  in onStdoutLine
noEntry(id) == ~pendingHas(id)

\* onStdoutLine(line)
onStdoutLine ==
  \E line \in StdoutLines :
    /\ rl # 0
    /\ lastResponseId' = line.id
    /\ IF line.kind # "response" \/ noEntry(line.id)
       THEN UNCHANGED <<pending, timeouts, settledBy>>
       ELSE /\ pending' = [pending EXCEPT ![line.id] = 0]
            /\ timeouts' = timeouts \ {line.id}
            /\ settledBy' = [settledBy EXCEPT ![pending[line.id]] =
                               Append(@, IF line.ok THEN "resolved" ELSE "request failed")]
    /\ UNCHANGED <<child, rl, spawned, childEvents, nextId, calls, idOf>>
    /\ syntaxFrame

InitSyntax ==
  /\ IdleReaderVars /\ InitSessionVars /\ platform = "posix"
  /\ IdlePureVars /\ InitSyntaxVars

NextSyntax ==
  \/ checkSyntax
  \/ stop
  \/ childEvent
  \/ requestTimeout
  \/ onStdoutLine

\* Timers that are armed do fire.
SpecSyntax == InitSyntax /\ [][NextSyntax]_vars /\ WF_vars(requestTimeout)

\* ------------------------------------------------------ session: properties
\* C1: a socket that connects while a debuggee connection is held is
\* destroyed in that very step, and the held connection, the pending start
\* response and every other session field stay as they were.
C1_SecondConnectionDestroyed ==
  [][(lastAction' = "onDebuggeeSocket" /\ debuggee # 0)
       => /\ stepLog' = <<Eff("destroySocket", lastArg', 0)>>
          /\ lastArg' # debuggee
          /\ sock'[lastArg'] = "gone"
          /\ sock'[debuggee] = sock[debuggee]
          /\ UNCHANGED fieldVars]_vars

C1_Witness ==
  /\ lastAction = "onDebuggeeSocket"
  /\ stepLog = <<Eff("destroySocket", lastArg, 0)>>
  /\ debuggee # 0 /\ debuggee # lastArg
  /\ sock[debuggee] = "open"

\* C2: a non-lifecycle request received while no debuggee connection is held
\* gets exactly one error response in that step, and nothing is written to
\* any debuggee socket.
C2_ForwardWithoutDebuggeeFails ==
  [][(lastAction' = "forwardRequestToDebuggee" /\ debuggee = 0)
       => /\ stepLog' = <<Eff("response", ForwardId, 999)>>
          /\ \A s \in SockIds : WritesTo(stepLog', s) = <<>>]_vars

C2_Witness ==
  /\ lastAction = "forwardRequestToDebuggee"
  /\ stepLog = <<Eff("response", ForwardId, 999)>>
  /\ debuggee = 0 /\ listener = 0
  /\ connected

\* C3: a disconnect/terminate received while a stop is in progress only
\* answers itself: no terminated event, no token increment, no sis_exit, no
\* timer or deferred cleanup scheduled, no field changed.
C3_StopIdempotent ==
  [][(lastAction' = "stopDebuggingSession" /\ stopping)
       => /\ stepLog' = <<Eff("response", StopId, 0)>>
          /\ UNCHANGED <<fieldVars, graceTimers, immediates, server, sock,
                         terminatedCount, released>>]_vars

C3_Witness ==
  /\ lastAction = "stopDebuggingSession"
  /\ stepLog = <<Eff("response", StopId, 0)>>
  /\ stopping
  /\ terminatedCount = 1
  /\ graceTimers # {}

\* C4: a start that was stopped before any debuggee connected, its bind
\* possibly still in flight, has been answered once its start sequence is
\* over, and the answer is a success.
C4_StoppedStartAnswered ==
  \A r \in stopBeforeConnect : cont[r].pc = "done" => sent[r] = <<TRUE>>

\* C5: accepting a debuggee closes the listener, then writes welcome, then
\* sends the pending start's success response, then emits initialized; the
\* first frame written to any connection is its welcome.
C5_AcceptOrder ==
  /\ [][(lastAction' = "onDebuggeeSocket" /\ debuggee = 0)
          => /\ \A r \in StartIds : server'[r] # "listening"
             /\ Len(stepLog') >= 2
             /\ stepLog'[1].op = "closeServer"
             /\ stepLog'[2] = Eff("welcome", lastArg', 0)
             /\ pendingStartResponse # 0
                  => SubSeq(stepLog', 3, Len(stepLog'))
                       = <<Eff("response", pendingStartResponse, 0),
                           Eff("initialized", 0, 0)>>
             /\ pendingStartResponse = 0 => Len(stepLog') = 2]_vars
  /\ [](\A s \in SockIds : firstWrite[s] \in {"none", "welcome"})

\* C6: the first stop of a connected launch writes exactly one sis_exit, and
\* when its grace timer fires the launched target is killed, the listener
\* and the connection are closed and the session is released, whatever the
\* console mode and the platform.
C6_GraceTimerKillsTarget ==
  [][/\ (lastAction' = "stopDebuggingSession" /\ ~stopping
           /\ activeKind = "launch" /\ debuggee # 0)
          => WritesTo(stepLog', debuggee) = <<"sis_exit">>
     /\ (lastAction' = "graceTimer" /\ lastArg' = sessionToken
           /\ (launchedChild # 0 \/ launchedTerminalKind # "none"))
          => /\ HasKill(stepLog')
             /\ \A r \in StartIds : server'[r] # "listening"
             /\ debuggee' = 0
             /\ released']_vars

\* C7: within one session the terminated event is emitted at most once, and
\* exactly once by the time the session is released.
C7_TerminatedOnce ==
  /\ terminatedCount <= 1
  /\ released => terminatedCount = 1

\* ------------------------------------------------------- reader: properties
\* Frames of a well-formed run whose last byte has arrived.
FramesArrived == Cardinality({i \in 1..Len(frames) : FrameEnd(frames, i) <= pos})

\* C8: however a stream of well-formed frames is cut into chunks, the
\* bodies delivered so far are exactly the frames that have fully arrived,
\* in order, and once the stream is complete they are the bodies the reader
\* delivers when the stream arrives as one chunk.
C8_ChunkingIndependent ==
  stream = WireBytes(frames)
    => /\ rd.messages = SubSeq(frames, 1, FramesArrived)
       /\ rd.closed = 0 \/ socketState # "open"
       /\ pos = Len(stream) => rd.messages = onData(freshReader, stream).messages

C8_Witness ==
  /\ Len(frames) = 2
  /\ stream = WireBytes(frames)
  /\ Len(Utf8Encode(frames[1])) >= 10
  /\ lastCut = 2
  /\ pos = Len(stream)
  /\ rd.messages = frames

\* C9: the closed callback of a connection is invoked at most once.
C9_ClosedAtMostOnce == rd.closed <= 1

C11_NonDecimalLengthFatal ==
  LET nl == indexOfNL(stream, 1)
      field == SubSeq(stream, 2, nl - 1)
      decimal == field # <<>> /\ \A i \in 1..Len(field) : field[i] \in Digits
  IN (nl # 0 /\ pos >= nl /\ stream[1] = "#" /\ ~decimal)
       => rd.messages = <<>> /\ rd.closed >= 1

\* The start sequence of launch r resumes after its bind in this step, as
\* the current start.
ResumesLaunch(r) ==
  /\ cont[r].pc = "awaitBind" /\ cont'[r].pc = "done"
  /\ cont[r].tok = sessionToken /\ cont[r].kind = "launch"
  /\ lastAction' = "startDebuggingSession.resume"

\* C12: a launch without a usable executable name is answered with the
\* failure 3005; afterwards no listener is open, no child has been spawned
\* and no runInTerminal request has been issued.
C12_EmptyExecutableFails ==
  [][\A r \in StartIds :
       (ResumesLaunch(r) /\ cont[r].cfg.exe = "empty")
         => /\ ResponsesFor(stepLog', r) = <<FALSE>>
            /\ HasOp(stepLog', "response") /\ stepLog'[1] = Eff("response", r, 3005)
            /\ ~HasOp(stepLog', "spawn") /\ ~HasOp(stepLog', "runInTerminal")
            /\ launchedChild' = 0 /\ ritPending' = ritPending
            /\ \A q \in StartIds : server'[q] # "listening"]_vars

\* C13: a launch that asks for a terminal console while the IDE did not
\* declare runInTerminal support is answered with the failure 3010, issues
\* no runInTerminal request, spawns nothing and leaves no listener open.
C13_NoRunInTerminalSupportFails ==
  [][\A r \in StartIds :
       (ResumesLaunch(r) /\ cont[r].cfg.exe = "ok"
          /\ cont[r].cfg.console \in {"integratedTerminal", "externalTerminal"}
          /\ ~clientSupportsRunInTerminalRequest)
         => /\ ResponsesFor(stepLog', r) = <<FALSE>>
            /\ HasOp(stepLog', "response") /\ stepLog'[1] = Eff("response", r, 3010)
            /\ ~HasOp(stepLog', "spawn") /\ ~HasOp(stepLog', "runInTerminal")
            /\ launchedChild' = 0 /\ ritPending' = ritPending
            /\ \A q \in StartIds : server'[q] # "listening"]_vars

\* The log launches a target: it spawns a child or issues runInTerminal.
Launches(log) == HasOp(log, "spawn") \/ HasOp(log, "runInTerminal")

\* C14: a target is launched only in the step in which the listener of that
\* same start has reported listening, and the bind of a start is requested
\* once; a failed bind launches nothing and is not retried.
C14_LaunchOnlyAfterListening ==
  [][/\ Launches(stepLog')
          => /\ lastAction' = "startDebuggingSession.resume"
             /\ cont[lastArg'].pc = "awaitBind" /\ cont'[lastArg'].pc = "done"
             /\ server[lastArg'] # "listening" /\ server'[lastArg'] = "listening"
             /\ \A i \in 1..Len(stepLog') :
                  /\ stepLog'[i].op = "spawn" => stepLog'[i].id = ChildPid(lastArg')
                  /\ stepLog'[i].op = "runInTerminal" => stepLog'[i].id = lastArg'
     /\ HasOp(stepLog', "listen")
          => /\ lastAction' = "startDebuggingSession"
             /\ cont[lastArg'].pc = "none"
             /\ CountOp(stepLog', "listen") = 1
     /\ lastAction' = "onError"
          => /\ stepLog' = <<Eff("response", lastArg', 3015)>>
             /\ cont'[lastArg'].pc = "done"
             /\ UNCHANGED <<launchVars, ritPending>>]_vars

C14_Witness ==
  /\ lastAction = "startDebuggingSession.resume"
  /\ HasOp(stepLog, "runInTerminal")
  /\ server[lastArg] = "listening"
  /\ launchedTerminalKind = "external"
  /\ ritPending[lastArg] # "none"

\* C15: while a debuggee connection is held no listener is open: the field
\* is empty and no server of the adapter is listening or being bound.
C15_HeldDebuggeeNoListener ==
  debuggee # 0
    => /\ listener = 0
       /\ \A r \in StartIds : server[r] \notin {"listening", "binding"}

\* C16: a start whose token was superseded (by a stop or by a newer start)
\* while it awaited its bind, when the bind completes, closes its own server
\* and changes nothing else: no pending response, no launch, no notice.
C16_StaleStartOnlyClosesServer ==
  [][(lastAction' = "startDebuggingSession.resume"
        /\ cont[lastArg'].tok # sessionToken)
       => /\ stepLog' = <<Eff("closeServer", lastArg', 0)>>
          /\ server' = [server EXCEPT ![lastArg'] = "none"]
          /\ UNCHANGED <<fieldVars, sock, dead, ritPending, graceTimers, immediates>>]_vars

C16_Witness ==
  /\ lastAction = "startDebuggingSession.resume"
  /\ stepLog = <<Eff("closeServer", lastArg, 0)>>
  /\ stopping
  /\ pendingStartResponse = 0
  /\ launchedChild = 0 /\ \A r \in StartIds : ritPending[r] = "none"

\* C17: a continuation whose token is no longer the current one (the start
\* resumed after its bind, the bind error handler, the runInTerminal reply
\* callback, the grace timer) leaves every session field unchanged.
C17_StaleContinuationsInert ==
  [][/\ (lastAction' \in {"startDebuggingSession.resume", "onError"}
           /\ cont[lastArg'].tok # sessionToken)
          => UNCHANGED fieldVars
     /\ (lastAction' = "graceTimer" /\ lastArg' # sessionToken)
          => UNCHANGED fieldVars
     /\ (lastAction' = "runInTerminal.reply"
           /\ (lastArg' # startCount \/ stopping))
          => UNCHANGED fieldVars]_vars

\* C18: a launch/attach that finds resources of a previous session closes
\* the previous listener, closes the previous debuggee connection and kills
\* the previously launched target, however it was launched, before it binds
\* the new listener; the adapter never has two listeners.
C18_RestartTearsDownPrevious ==
  /\ [][lastAction' = "startDebuggingSession"
          => /\ (launchedChild # 0 \/ launchedTerminalKind # "none")
                  => HasKill(stepLog')
             /\ listener # 0
                  => \E i \in 1..Len(stepLog') : stepLog'[i] = Eff("closeServer", listener, 0)
             /\ debuggee # 0
                  => \E i \in 1..Len(stepLog') : stepLog'[i] = Eff("destroySocket", debuggee, 0)
             /\ \A i \in 1..Len(stepLog') : stepLog'[i].op = "listen" => i = Len(stepLog')]_vars
  /\ [](Cardinality({r \in StartIds : server[r] = "listening"}) <= 1)

\* Teardown effects: closing a server or a socket, releasing the session.
TeardownOps == {"closeServer", "destroySocket", "shutdown"}

\* C19: the stop of a connected launch writes sis_exit and arms the grace
\* timer without killing or closing anything; while that timer is pending
\* nothing is killed; when it fires, the kills come first, then the listener
\* and the connection are closed, then the session is released.
C19_CooperativeStopOrder ==
  [][/\ (lastAction' = "stopDebuggingSession" /\ ~stopping
           /\ activeKind = "launch" /\ debuggee # 0)
          => /\ HasOp(stepLog', "sis_exit")
             /\ stepLog'[Len(stepLog')] = Eff("setTimeout", sessionToken', 0)
             /\ sessionToken' \in graceTimers'
             /\ \A i \in 1..Len(stepLog') : stepLog'[i].op \notin KillOps \cup TeardownOps
     /\ (sessionToken \in graceTimers
           /\ lastAction' \notin {"graceTimer", "startDebuggingSession"})
          => ~HasKill(stepLog')
     /\ (lastAction' = "graceTimer" /\ lastArg' = sessionToken)
          => /\ stepLog'[Len(stepLog')] = Eff("shutdown", 0, 0)
             /\ \A i, j \in 1..Len(stepLog') :
                  (stepLog'[i].op \in TeardownOps /\ stepLog'[j].op \in KillOps) => j < i]_vars

C19_Witness ==
  /\ lastAction = "graceTimer"
  /\ Len(stepLog) = 4
  /\ stepLog[1].op = "killChild"
  /\ stepLog[2].op = "killProcessTree"
  /\ stepLog[3].op = "destroySocket"
  /\ stepLog[4].op = "shutdown"
  /\ released

\* C20: whenever the session is released (shutdown is called) no server of
\* the adapter is listening and no debuggee socket is still open.
C20_ReleasedMeansClosed ==
  [][HasOp(stepLog', "shutdown")
       => /\ \A r \in StartIds : server'[r] # "listening"
          /\ \A s \in SockIds : sock'[s] # "open"]_vars

\* C21: no kill by process id is ever issued against the shell process id
\* of a terminal that was opened for an integrated-terminal launch.
C21_IntegratedShellNeverKilledByPid ==
  [][\A i \in 1..Len(stepLog') :
       stepLog'[i].op = "killProcessTree"
         => \A r \in StartIds : stepLog'[i].id # IntegratedShellPid(r)]_vars

\* A step of the start sequence that sent a failure response for start r.
StartFailed(r) ==
  /\ lastAction' \in {"startDebuggingSession", "startDebuggingSession.resume", "onError"}
  /\ lastArg' = r
  /\ \E i \in 1..Len(stepLog') :
       /\ stepLog'[i].op = "response" /\ stepLog'[i].id = r /\ stepLog'[i].code # 0

\* Nothing is listening or bound, and no debuggee connection is open.
NothingOpen ==
  /\ listener = 0 /\ debuggee = 0
  /\ \A r \in StartIds : server[r] \notin {"binding", "listening"}
  /\ \A s \in SockIds : sock[s] # "open"

\* C22: when a start fails (invalid configuration, bind failure, launch
\* failure, exception in the start sequence) the failure response is sent
\* and afterwards neither a listener nor a debuggee connection is open.
C22_FailedStartLeavesNothingOpen ==
  [][\A r \in StartIds : StartFailed(r) => NothingOpen']_vars

\* C23: each launch/attach request is answered at most once.
C23_StartAnsweredAtMostOnce ==
  \A r \in StartIds : Len(sent[r]) <= 1

\* C24: a launch/attach request whose session has been released (shutdown)
\* or superseded by a newer launch/attach has received a response, at the
\* latest once its start sequence has finished and the adapter no longer
\* holds it as pending.
C24_StartAnsweredWhenReleasedOrSuperseded ==
  \A r \in StartIds :
    ( /\ r <= startCount /\ (released \/ r < startCount)
      /\ cont[r].pc = "done" /\ pendingStartResponse # r )
      => sent[r] # <<>>

\* C25: when the held debuggee connection closes, errors or hits a framing
\* error while no stop is in progress and a launched target exists, the
\* step emits terminated, kills the target, clears its identifiers and
\* releases the session.
C25_DisconnectTearsDownLikeStop ==
  [][( /\ lastAction' \in {"socket.close", "socket.error", "onData.framingError"}
       /\ debuggee # 0 /\ lastArg' = debuggee
       /\ ~stopping /\ activeKind = "launch"
       /\ launchedExecutableFullPath # 0 )
      => ( /\ HasOp(stepLog', "terminated")
           /\ HasKill(stepLog')
           /\ launchedChild' = 0 /\ launchedExecutableFullPath' = 0
           /\ launchedProcessId' = 0 /\ launchedShellProcessId' = 0
           /\ released' )]_vars

\* C26: a non-lifecycle request that arrives while a debuggee connection is
\* held is written to that connection as exactly one frame holding its JSON
\* text, after the frames of the requests that arrived before it, and the
\* adapter sends no response for it: a reader of the bytes written gets the
\* texts of the requests, one message each, in arrival order.
C26_RequestsForwardedInOrder ==
  [][(lastAction' = "forwardRequestToDebuggee" /\ debuggee # 0)
       => /\ stepLog' = <<Eff("request", debuggee, lastArg')>>
          /\ arrived' = Append(arrived, lastArg')
          /\ wire' = wire \o sendRawJsonText(JSONstringify(lastArg'))
          /\ onData(freshReader, wire').messages =
               [i \in 1..Len(arrived') |-> JSONstringify(arrived'[i])]
          /\ UNCHANGED <<fieldVars, sock>>]_vars

C26_Witness ==
  /\ lastAction = "forwardRequestToDebuggee"
  /\ debuggee # 0
  /\ arrived = <<2, 1>>
  /\ wire = WireBytes(<<JSONstringify(2), JSONstringify(1)>>)
  /\ stepLog = <<Eff("request", debuggee, 1)>>

\* C27: an event of the debuggee named sis_adapter_internal is never
\* forwarded to the IDE, whatever its body; every other well-formed event
\* is forwarded exactly once with its name and body.
C27_InternalEventNeverForwarded ==
  [][lastAction' = "onDebuggeeJsonText"
       => LET msg == DebuggeeMessages[lastArg']
          IN /\ \A i \in 1..Len(stepLog') :
                  ~(stepLog'[i].op = "event"
                      /\ stepLog'[i].id = NameCode("sis_adapter_internal"))
             /\ (isEvent(msg) /\ msg.name # "sis_adapter_internal")
                  => stepLog' = <<Eff("event", NameCode(msg.name), BodyCode(msg.body))>>]_vars

\* C28: a response forwarded from the debuggee to the IDE answers a request
\* that the IDE issued and the adapter forwarded to this connection; the
\* response to the adapter's own sis_exit request is never forwarded.
C28_ForwardedResponsesAnswerForwardedRequests ==
  [][\A i \in 1..Len(stepLog') :
       stepLog'[i].op = "forwardedResponse"
         => /\ stepLog'[i].code # NameCode("sis_exit")
            /\ \E k \in 1..Len(arrived) : arrived[k] = stepLog'[i].id]_vars

\* C29: a complete frame that is not valid JSON, or is neither an event nor
\* a response, produces exactly one output event and leaves the connection
\* open and every session field unchanged; a well-formed event or response
\* that is the next frame processed is still forwarded.
C29_BadJsonOnlyReported ==
  [][lastAction' = "onDebuggeeJsonText"
       => LET msg == DebuggeeMessages[lastArg']
          IN /\ Unhandled(msg)
                  => /\ stepLog' = <<Eff("output", 0, 0)>>
                     /\ UNCHANGED <<fieldVars, sock, dead, server, arrived, wire>>
             /\ ( /\ lastAction = "onDebuggeeJsonText"
                  /\ Unhandled(DebuggeeMessages[lastArg])
                  /\ ~Unhandled(msg)
                  /\ ~(isEvent(msg) /\ msg.name = "sis_adapter_internal") )
                  => stepLog' = <<IF isEvent(msg)
                                  THEN Eff("event", NameCode(msg.name), BodyCode(msg.body))
                                  ELSE Eff("forwardedResponse", msg.seq,
                                           NameCode(msg.name))>>]_vars

C29_Witness ==
  /\ lastAction = "onDebuggeeJsonText"
  /\ ~DebuggeeMessages[lastArg].valid
  /\ stepLog = <<Eff("output", 0, 0)>>
  /\ debuggee # 0 /\ sock[debuggee] = "open" /\ debuggee \notin dead
  /\ ~stopping /\ ~released

\* C30: an initialized event is emitted only by the step in which a debuggee
\* connects while a start response is pending, directly after the success
\* response of that start, and at most once per launch/attach request; a
\* start already answered (by a stop) gets no initialized event.
C30_InitializedOnlyOnAccept ==
  [][\A i \in 1..Len(stepLog') :
       stepLog'[i].op = "initialized"
         => /\ lastAction' = "onDebuggeeSocket"
            /\ pendingStartResponse # 0
            /\ i > 1
            /\ stepLog'[i - 1] = Eff("response", pendingStartResponse, 0)
            /\ pendingStartResponse \notin initializedFor
            /\ sent[pendingStartResponse] = <<>>]_vars

\* C31: the bytes sendRawJsonText writes for a text are read back as exactly
\* that one text, and once every byte of several consecutive writes has
\* arrived, in whatever chunks, the reader has delivered exactly the texts
\* written, in the order written, with nothing left in its buffer.
C31_WriteReadRoundTrip ==
  stream = WireBytes(frames)
    => /\ \A i \in 1..Len(frames) :
            onData(freshReader, sendRawJsonText(frames[i])) =
              [buffer |-> <<>>, messages |-> <<frames[i]>>, closed |-> 0]
       /\ pos = Len(stream) => rd.messages = frames /\ rd.buffer = <<>>

C31_Witness ==
  /\ stream = WireBytes(frames)
  /\ frames = << <<"e'">>, <<>> >>
  /\ pos = Len(stream) /\ lastCut > 0
  /\ rd.messages = frames /\ rd.buffer = <<>> /\ rd.closed = 0

\* C32: the port read from the configuration is the configured value when
\* that value is an integer in 1..65535, and 56789 for every other value.
C32_PortDefault ==
  listenPort # NotRead
    => LET port == parseInt(listenPortText(cfgListenPort))
       IN listenPort = IF ~port.nan /\ port.val \in 1..65535
                       THEN port.val ELSE DefaultPort

\* The characters of a command line as the claim reads them: a quote
\* outside a quoted span opens one, inside it closes it unless the next
\* character is a quote too, in which case the pair is one literal quote;
\* white space outside a quoted span separates ("sep"), every other
\* character is part of a token ("lit").  An open span ends with the line.
RECURSIVE Lexed(_, _)
Lexed(rest, quoted) ==
  IF rest = <<>> THEN <<>>
  ELSE IF Head(rest) = Quote
  THEN IF quoted /\ Len(rest) >= 2 /\ rest[2] = Quote
       THEN <<[kind |-> "lit", ch |-> Quote]>> \o Lexed(Tail(Tail(rest)), TRUE)
       ELSE Lexed(Tail(rest), ~quoted)
  ELSE IF ~quoted /\ Head(rest) \in {" ", "\t"}
  THEN <<[kind |-> "sep", ch |-> Head(rest)]>> \o Lexed(Tail(rest), quoted)
  ELSE <<[kind |-> "lit", ch |-> Head(rest)]>> \o Lexed(Tail(rest), quoted)

\* The maximal non-empty runs of token characters between separators.
RECURSIVE Runs(_, _)
Runs(items, current) ==
  IF items = <<>> THEN (IF current = <<>> THEN <<>> ELSE <<current>>)
  ELSE IF Head(items).kind = "sep"
  THEN (IF current = <<>> THEN <<>> ELSE <<current>>) \o Runs(Tail(items), <<>>)
  ELSE Runs(Tail(items), Append(current, Head(items).ch))

\* C33: splitCommandLine returns the maximal runs of characters between
\* white space outside double quotes, with white space inside a quoted span
\* kept, a doubled quote inside a span read as one quote, an unmatched
\* opening quote closed by the end of the line, and no empty token.
C33_SplitCommandLine ==
  args # NotSplit
    => /\ args = Runs(Lexed(commandLine, FALSE), <<>>)
       /\ \A i \in 1..Len(args) : args[i] # <<>>

C33_Witness ==
  /\ commandLine = <<"a", Quote, " ", Quote, Quote>>
  /\ args = << <<"a", " ", Quote>> >>

\* C34: the setImmediate cleanup of a stop, when it runs after a later
\* launch/attach (the session is no longer stopping), kills no process of
\* that later session, does not close its listener and does not close its
\* debuggee connection.
C34_DeferredCleanupSparesNewSession ==
  [][(lastAction' = "immediate" /\ steps' = steps + 1 /\ ~stopping)
       => \A i \in 1..Len(stepLog') :
            /\ ~(stepLog'[i].op \in {"killChild", "killProcessTree"}
                 /\ stepLog'[i].id \in {ChildPid(startCount), TerminalPid(startCount),
                                        ShellPid(startCount)})
            /\ ~(stepLog'[i].op = "closeServer" /\ stepLog'[i].id = startCount)
            /\ ~(stepLog'[i].op = "destroySocket" /\ connected)]_vars

\* C35: when a launch/attach has arrived since the adapter closed a
\* connection (the session is neither stopping nor released), the 'close'
\* event of that closed connection emits no terminated event, does not
\* release the adapter and leaves the debuggee connection as it is.
C35_OldSocketEventsInert ==
  [][\A s \in SockIds :
       (/\ sock[s] = "destroyed" /\ s # debuggee /\ startCount > 0
        /\ ~stopping /\ ~released
        /\ lastAction' = "socket.close" /\ lastArg' = s /\ steps' = steps + 1)
         => /\ ~HasOp(stepLog', "terminated")
            /\ ~HasOp(stepLog', "shutdown")
            /\ debuggee' = debuggee]_vars

\* C36: every process id handed to a kill by pid (child.kill or
\* killProcessTreeBestEffort) in a stop or restart belongs to the launch of
\* the session being torn down, the latest one received before the step.
C36_KilledPidsBelongToSession ==
  [][\A i \in 1..Len(stepLog') :
       stepLog'[i].op \in {"killChild", "killProcessTree"}
         => stepLog'[i].id \in {ChildPid(startCount), TerminalPid(startCount),
                                ShellPid(startCount), IntegratedShellPid(startCount)}]_vars

\* C37: a stop (the request itself, its grace timer or its deferred
\* cleanup) issues a kill of any sort only if the session holds a spawned
\* child or has issued a runInTerminal request.
C37_StopKillsOnlyWhatWasLaunched ==
  [][(/\ lastAction' \in {"stopDebuggingSession", "graceTimer", "immediate"}
      /\ steps' = steps + 1
      /\ HasKill(stepLog'))
       => (launchedChild # 0 \/ launchedTerminalKind # "none")]_vars


\* C38: a stop received in attach mode (the request and the cleanup it
\* defers) writes no sis_exit request to the debuggee and issues no kill.
C38_AttachStopIsGentle ==
  [][steps' = steps + 1
       => /\ (lastAction' = "stopDebuggingSession" /\ activeKind = "attach")
               => ~HasOp(stepLog', "sis_exit") /\ ~HasKill(stepLog')
          /\ (lastAction' = "immediate" /\ Head(cleanupKinds) = "attach")
               => ~HasOp(stepLog', "sis_exit") /\ ~HasKill(stepLog')]_vars

\* Promise p has been returned and not settled.
Unsettled(p) == p <= calls /\ settledBy[p] = <<>>

\* Every returned promise is settled at most once; a promise waiting to be
\* settled has the entry of its id and an armed timer; a settled one has
\* neither.
PromisesConsistent ==
  \A p \in PromiseIds :
    /\ Len(settledBy[p]) <= 1
    /\ p > calls => settledBy[p] = <<>> /\ idOf[p] = 0
    /\ Unsettled(p) => /\ idOf[p] # 0 /\ pending[idOf[p]] = p
                       /\ idOf[p] \in timeouts
    /\ (settledBy[p] # <<>> /\ idOf[p] # 0)
         => pending[idOf[p]] = 0 /\ idOf[p] \notin timeouts

\* A response line naming the id of a promise that is already settled
\* changes nothing.
LateResponseIgnored ==
  (/\ lastResponseId' # 0
   /\ \E p \in PromiseIds : idOf[p] = lastResponseId' /\ settledBy[p] # <<>>)
    => UNCHANGED <<child, rl, spawned, childEvents, nextId, pending, timeouts, calls,
                   idOf, settledBy>>

\* C39: every promise sendRequest returns is settled exactly once (never
\* twice, and in the end once, the request timer firing if nothing else
\* does); once settled, the pending map has no entry for its id and a later
\* response for that id is ignored.
C39_SettledExactlyOnce ==
  /\ []PromisesConsistent
  /\ [][LateResponseIgnored]_vars
  /\ \A p \in PromiseIds : (calls >= p) ~> (Len(settledBy[p]) = 1)

C39_Witness ==
  /\ calls = 2
  /\ settledBy[1] = <<"timeout">>
  /\ settledBy[2] = <<"server exited">>
  /\ idOf[2] = 2 /\ pending[2] = 0
  /\ lastResponseId = 2
====
